---------------------------- MODULE Spec2Model ----------------------------
(* Model of the expense tracker backend: the request handlers of          *)
(* src/src/index.ts, the store operations of src/src/database.ts and the  *)
(* validation and normalisation functions of src/src/validation.ts.       *)
(*                                                                         *)
(* Every handler is an async function: it runs without interruption up   *)
(* to its next await of a store operation, and the store runs each of its  *)
(* operations on one document atomically. One action of the model is one   *)
(* store operation of one handler together with the code of the handler    *)
(* that runs before it since the previous one (for the first operation,    *)
(* since the request arrived) and the code that runs after it up to the    *)
(* next await or the response. Handlers of different requests interleave   *)
(* between these actions.                                                  *)
EXTENDS Integers, Sequences, FiniteSets, TLC

(* ---------------------------------------------------------------------- *)
(* Bounds of the model                                                     *)
(* ---------------------------------------------------------------------- *)

\* number of requests the server receives in one behaviour
NumReq == 2

\* the server clock takes the values 0..MaxClock
MaxClock == 1

\* the ids a PUT or DELETE request may name are 1..MaxPathId
MaxPathId == 1

(* ---------------------------------------------------------------------- *)
(* JavaScript values and strings                                           *)
(* ---------------------------------------------------------------------- *)

\* A string is the sequence of its characters. A JSON value carries its
\* typeof tag t; a number is n + f/1000 with n its whole part (the floor)
\* and f in 0..999 its thousandths (10.5 is n = 10, f = 500); s is the
\* string.
Undefined == [t |-> "undefined", n |-> 0, f |-> 0, s |-> <<>>]

Null == [t |-> "null", n |-> 0, f |-> 0, s |-> <<>>]

Num(n, f) == [t |-> "number", n |-> n, f |-> f, s |-> <<>>]

Str(s) == [t |-> "string", n |-> 0, f |-> 0, s |-> s]

\* the number NaN
NaN == [t |-> "number", n |-> 0, f |-> 0, s |-> <<"N", "a", "N">>]

\* isNaN(v) of a number
IsNaN(v) == v.s # <<>>

\* The error of a floating point product a * 100, in thousandths of the
\* unit of the product: for a <= 100000000 the double a and the rounding
\* of the product are each less than 0.000001 away from the exact decimal,
\* so the product lies within one thousandth of 100 times the decimal.
FloatErrors == {-1, 0, 1}

\* a * 100 of the positive number a, computed with the error e: u hundreds
\* and m thousandths of a unit (the value 100 * u + m / 1000)
Times100(a, e) == [u |-> a.n, m |-> a.f * 100 + e]

\* MathRound as it would be with Math.floor (or parseInt) in its place
MathFloor(p) ==
    IF p.m < 0 THEN [u |-> p.u - 1, c |-> 99]
    ELSE [u |-> p.u, c |-> p.m \div 1000]

\* Math.round of a product of Times100: the nearest integer, halves up,
\* as u hundreds and c in 0..99 units (the integer 100 * u + c)
MathRound(p) ==
    LET c == (p.m + 500) \div 1000
    IN  IF c = 100 THEN [u |-> p.u + 1, c |-> 0] ELSE [u |-> p.u, c |-> c]

\* k / 100 of the integer k = 100 * u + c: the number with c hundredths
DividedBy100(k) == Num(k.u, k.c * 10)

\* the test  !v  of JavaScript negated: v is truthy
Truthy(v) ==
    \/ v.t = "string" /\ v.s # <<>>
    \/ v.t = "number" /\ (v.n # 0 \/ v.f # 0)
    \/ v.t = "object"

Whitespace == {" ", "\t", "\n"}

\* s has a character that is no whitespace
HasInk(s) == \E i \in 1..Len(s) : s[i] \notin Whitespace

\* s without its leading whitespace
TrimStart(s) ==
    IF ~HasInk(s) THEN <<>>
    ELSE SubSeq(s, CHOOSE i \in 1..Len(s) :
                       /\ s[i] \notin Whitespace
                       /\ \A j \in 1..(i - 1) : s[j] \in Whitespace,
                Len(s))

\* s without its trailing whitespace
TrimEnd(s) ==
    IF ~HasInk(s) THEN <<>>
    ELSE SubSeq(s, 1, CHOOSE i \in 1..Len(s) :
                          /\ s[i] \notin Whitespace
                          /\ \A j \in (i + 1)..Len(s) : s[j] \in Whitespace)

\* String.prototype.trim
Trim(s) == TrimEnd(TrimStart(s))

(* ---------------------------------------------------------------------- *)
(* validation.ts                                                           *)
(* ---------------------------------------------------------------------- *)

Food == <<"F", "o", "o", "d">>

Transport == <<"T", "r", "a", "n", "s", "p", "o", "r", "t">>

Entertainment ==
    <<"E", "n", "t", "e", "r", "t", "a", "i", "n", "m", "e", "n", "t">>

Shopping == <<"S", "h", "o", "p", "p", "i", "n", "g">>

Bills == <<"B", "i", "l", "l", "s">>

Healthcare == <<"H", "e", "a", "l", "t", "h", "c", "a", "r", "e">>

Education == <<"E", "d", "u", "c", "a", "t", "i", "o", "n">>

Other == <<"O", "t", "h", "e", "r">>

VALID_CATEGORIES ==
    {Food, Transport, Entertainment, Shopping, Bills, Healthcare,
     Education, Other}

\* 100000000 major units (10 crore)
MaxAmount == 100000000

MaxDescriptionLen == 500

MaxKeyLen == 100

\* the instant of validation (new Date()), as a calendar day
Today == [y |-> 2026, m |-> 11, d |-> 1]

Digits == {"0", "1", "2", "3", "4", "5", "6", "7", "8", "9"}

DigitVal(c) ==
    CASE c = "0" -> 0 [] c = "1" -> 1 [] c = "2" -> 2 [] c = "3" -> 3
      [] c = "4" -> 4 [] c = "5" -> 5 [] c = "6" -> 6 [] c = "7" -> 7
      [] c = "8" -> 8 [] c = "9" -> 9

\* /^\d{4}-\d{2}-\d{2}$/
DateRegex(s) ==
    /\ Len(s) = 10
    /\ \A i \in {1, 2, 3, 4, 6, 7, 9, 10} : s[i] \in Digits
    /\ s[5] = "-"
    /\ s[8] = "-"

\* new Date("YYYY-MM-DD") of a string that matches DateRegex: the parsed
\* year, month and day, and whether the parse gives a time (not NaN)
ParseDate(s) ==
    [y |-> 1000 * DigitVal(s[1]) + 100 * DigitVal(s[2])
             + 10 * DigitVal(s[3]) + DigitVal(s[4]),
     m |-> 10 * DigitVal(s[6]) + DigitVal(s[7]),
     d |-> 10 * DigitVal(s[9]) + DigitVal(s[10])]

DateIsValid(p) == p.m \in 1..12 /\ p.d \in 1..31

\* parsedDate > maxFutureDate, maxFutureDate one year after the current day
TooFarInFuture(p) ==
    LET lim == [Today EXCEPT !.y = Today.y + 1]
    IN  \/ p.y > lim.y
        \/ p.y = lim.y /\ p.m > lim.m
        \/ p.y = lim.y /\ p.m = lim.m /\ p.d > lim.d

\* the number of decimal places of amount.toString(), from the thousandths
DecimalPlaces(f) ==
    IF f % 10 # 0 THEN 3 ELSE IF f % 100 # 0 THEN 2
    ELSE IF f # 0 THEN 1 ELSE 0

AmountErrors(a) ==
    IF a.t \in {"undefined", "null"} THEN <<"Amount is required">>
    ELSE IF a.t # "number" \/ IsNaN(a)
         THEN <<"Amount must be a valid number">>
    ELSE IF a.n < 0 \/ (a.n = 0 /\ a.f = 0)
         THEN <<"Amount must be greater than 0">>
    ELSE IF a.n > MaxAmount \/ (a.n = MaxAmount /\ a.f > 0)
         THEN <<"Amount exceeds maximum allowed value">>
    ELSE IF DecimalPlaces(a.f) > 2
         THEN <<"Amount can have at most 2 decimal places">>
    ELSE <<>>

CategoryErrors(c) ==
    IF ~Truthy(c) THEN <<"Category is required">>
    ELSE IF c.t # "string" THEN <<"Category must be a string">>
    ELSE IF c.s \notin VALID_CATEGORIES THEN <<"Category must be one of">>
    ELSE <<>>

DescriptionErrors(d) ==
    IF ~Truthy(d) THEN <<"Description is required">>
    ELSE IF d.t # "string" THEN <<"Description must be a string">>
    ELSE IF Len(Trim(d.s)) = 0 THEN <<"Description cannot be empty">>
    ELSE IF Len(d.s) > MaxDescriptionLen
         THEN <<"Description must be 500 characters or less">>
    ELSE <<>>

DateErrors(d) ==
    IF ~Truthy(d) THEN <<"Date is required">>
    ELSE IF d.t # "string" THEN <<"Date must be a string">>
    ELSE IF ~DateRegex(d.s) THEN <<"Date must be in YYYY-MM-DD format">>
    ELSE (IF ~DateIsValid(ParseDate(d.s))
          THEN <<"Date is not a valid date">> ELSE <<>>)
         \o (IF DateIsValid(ParseDate(d.s)) /\ TooFarInFuture(ParseDate(d.s))
             THEN <<"Date cannot be more than 1 year in the future">>
             ELSE <<>>)

KeyErrors(k) ==
    IF k.t = "undefined" THEN <<>>
    ELSE IF k.t # "string" THEN <<"Idempotency key must be a string">>
    ELSE IF Len(k.s) > MaxKeyLen
         THEN <<"Idempotency key must be 100 characters or less">>
    ELSE <<>>

\* validateExpenseInput: the list of error messages; valid is errors = <<>>
validateExpenseInput(input) ==
    IF input.shape # "object"
    THEN <<"Request body must be a valid JSON object">>
    ELSE AmountErrors(input.amount) \o CategoryErrors(input.category)
         \o DescriptionErrors(input.description) \o DateErrors(input.date)
         \o KeyErrors(input.idempotency_key)

\* Math.round(amount * 100) / 100 of a positive amount, the product
\* computed with the error e
RoundTo2(a, e) == DividedBy100(MathRound(Times100(a, e)))

\* Math.round(amount * 100) / 100 of an amount that passed validation: it
\* has at most two decimal places, and the error of the product does not
\* reach the rounding
RoundToHundredths(a) == RoundTo2(a, 0)

\* input.idempotency_key?.trim()
TrimKey(k) == IF k.t = "undefined" THEN Undefined ELSE Str(Trim(k.s))

\* sanitizeInput, of an input that passed validation
sanitizeInput(input) ==
    [shape |-> "object",
     amount |-> RoundToHundredths(input.amount),
     category |-> Str(Trim(input.category.s)),
     description |-> Str(Trim(input.description.s)),
     date |-> Str(Trim(input.date.s)),
     idempotency_key |-> TrimKey(input.idempotency_key)]

(* ---------------------------------------------------------------------- *)
(* Expense records, responses and request bodies                           *)
(* ---------------------------------------------------------------------- *)

\* placeholder of a request that has built no expense yet
NoExpense ==
    [id |-> 0, amount |-> [u |-> 0, c |-> 0], category |-> <<>>, description |-> <<>>,
     date |-> <<>>, created_at |-> 0, idempotency_key |-> Undefined]

\* placeholder of a response without an expense in its body
NoResponse ==
    [id |-> 0, amount |-> Num(0, 0), category |-> <<>>, description |-> <<>>,
     date |-> <<>>, created_at |-> 0]

\* Math.round(amount * 100): the amount in minor units, kept as u whole
\* major units and c in 0..99 minor units (the integer 100 * u + c); the
\* amount is one sanitizeInput returned
ToMinorUnits(a) == MathRound(Times100(a, 0))

\* the Expense object the create handler builds
BuildExpense(input, id, clock) ==
    [id |-> id,
     amount |-> ToMinorUnits(input.amount),
     category |-> input.category.s,
     description |-> input.description.s,
     date |-> input.date.s,
     created_at |-> clock,
     idempotency_key |-> input.idempotency_key]

\* the updates object the update handler builds
BuildUpdates(input) ==
    [amount |-> ToMinorUnits(input.amount),
     category |-> input.category.s,
     description |-> input.description.s,
     date |-> input.date.s]

\* toExpenseResponse: the amount in major units (expense.amount / 100),
\* the idempotency key left out
toExpenseResponse(e) ==
    [id |-> e.id, amount |-> DividedBy100(e.amount), category |-> e.category,
     description |-> e.description, date |-> e.date,
     created_at |-> e.created_at]

KeyA == <<"a">>

KeyB == <<"b">>

Date1 == <<"2", "0", "2", "4", "-", "0", "1", "-", "1", "5">>

Date2 == <<"2", "0", "2", "4", "-", "0", "2", "-", "0", "5">>

Body1(k) ==
    [shape |-> "object", amount |-> Num(100, 500), category |-> Str(Food),
     description |-> Str(<<"L", "u", "n", "c", "h">>), date |-> Str(Date1),
     idempotency_key |-> k]

Body2(k) ==
    [shape |-> "object", amount |-> Num(20, 0), category |-> Str(Transport),
     description |-> Str(<<" ", "B", "u", "s">>), date |-> Str(Date2),
     idempotency_key |-> k]

\* a body that violates the amount rule and the category rule
BadBody ==
    [shape |-> "object", amount |-> Num(0, 0), category |-> Str(<<"X">>),
     description |-> Str(<<"L", "u", "n", "c", "h">>), date |-> Str(Date1),
     idempotency_key |-> Undefined]

\* The bodies of the create requests carry no idempotency key, the empty
\* string, a key, the same key with leading whitespace in another body, or
\* another key.
PostBodies ==
    {Body1(Undefined), Body1(Str(<<>>)), Body1(Str(KeyA)),
     Body2(Str(<<" ", "a">>)), Body1(Str(KeyB)), Body2(Str(KeyB)), BadBody}

PutBodies == {Body2(Undefined), BadBody}

PathIds == 1..MaxPathId

(* ---------------------------------------------------------------------- *)
(* The store: the expenses collection of database.ts                       *)
(* ---------------------------------------------------------------------- *)

VARIABLES
    store,      \* the documents of the expenses collection
    req,        \* the requests: body, position of the handler, response
    now,        \* the server clock (new Date())
    nextId,     \* the next fresh identifier (uuidv4())
    call,       \* one input on its way through validation and conversion
    get,        \* the read requests: parameters, position, response
    db,         \* the module state of database.ts: client, connecting, ...
    ops         \* the store operations that call connect()

vars == <<store, req, now, nextId, call, get, db, ops>>

\* the variables the write handlers leave alone
readSide == <<call, get, db, ops>>

\* no input is on its way through validation
NoCall == [pc |-> "none"]

\* No read request has arrived. A read request keeps its query
\* parameters, what the handler made of them, the collection its count
\* read (counted) and whether its find read the same (quiet), and its
\* response; asc is the last ascending listing without filter and without
\* pages that was read from an unchanged collection S.
NoGet ==
    [pc |-> "none", category |-> Undefined, sort |-> Undefined,
     page |-> Undefined, limit |-> Undefined, pageNum |-> 0,
     limitNum |-> 0, sortOrder |-> 0, counted |-> {}, quiet |-> TRUE,
     status |-> 0, data |-> <<>>, total |-> 0, resPage |-> 0,
     resLimit |-> 0, totalPages |-> 0,
     asc |-> [seen |-> FALSE, S |-> {}, data |-> <<>>]]

\* The server listens after database.init() has returned: the client is
\* connected, the collection is set and the indexes are created by the
\* one connection attempt of the process.
Established ==
    [client |-> 1, connecting |-> 1, collection |-> 1,
     attempts |-> <<"resolved">>, closes |-> 0, closing |-> FALSE]

\* no store operation is calling connect()
NoOps == <<>>

\* The driver writes an undefined field of a filter or a document as null
\* (MongoClient is built without ignoreUndefined).
Bson(v) == IF v.t = "undefined" THEN Null ELSE v

\* the document stored for an expense
ToDocument(e) == [e EXCEPT !.idempotency_key = Bson(@)]

\* the documents the filter { idempotency_key: key } matches
MatchKey(S, key) == {d \in S : d.idempotency_key = Bson(key)}

\* the documents the filter { id } matches
MatchId(S, id) == {d \in S : d.id = id}

\* findByIdempotencyKey: findOne({ idempotency_key: key }); the documents
\* it can return, none for null
findByIdempotencyKey(S, key) == MatchKey(S, key)

\* findById: findOne({ id }); the documents it can return, none for null
findById(S, id) == MatchId(S, id)

\* DuplicateKey as it would be had the index not been created unique
DuplicateKeyNotUnique(S, doc) == FALSE

\* DuplicateKey as it would be had the index kept the keys of deleted
\* records: every document that carries a key is rejected
DuplicateKeyEveryKey(S, doc) == doc.idempotency_key.t = "string"

\* the unique index on idempotency_key (createIndex, unique and sparse)
\* rejects a document whose key value is already indexed; every stored
\* document has the field, so every document is indexed
DuplicateKey(S, doc) ==
    \E d \in S : d.idempotency_key = doc.idempotency_key

\* ApplySet as it would be had the update replaced the whole document by
\* the updates and the id (replaceOne) instead of setting four fields
ApplySetReplacing(d, updates) ==
    [NoExpense EXCEPT !.id = d.id, !.idempotency_key = Null,
                      !.amount = updates.amount,
                      !.category = updates.category,
                      !.description = updates.description,
                      !.date = updates.date]

\* $set: updates, of the document d
ApplySet(d, updates) ==
    [d EXCEPT !.amount = updates.amount, !.category = updates.category,
              !.description = updates.description, !.date = updates.date]

\* updateExpense as it would be with upsert: true, as in createExpense
updateExpenseUpsert(S, id, updates) ==
    IF MatchId(S, id) = {}
    THEN {[S |-> S \cup {ApplySet([NoExpense EXCEPT !.id = id], updates)},
           found |-> TRUE,
           doc |-> ApplySet([NoExpense EXCEPT !.id = id], updates)]}
    ELSE {[S |-> (S \ {d}) \cup {ApplySet(d, updates)}, found |-> TRUE,
           doc |-> ApplySet(d, updates)] : d \in MatchId(S, id)}

\* updateExpense: findOneAndUpdate({ id }, { $set: updates }) with
\* returnDocument 'after' and no upsert. Its outcomes: the collection after
\* it and the document returned (found is FALSE for null).
updateExpense(S, id, updates) ==
    IF MatchId(S, id) = {}
    THEN {[S |-> S, found |-> FALSE, doc |-> NoExpense]}
    ELSE {[S |-> (S \ {d}) \cup {ApplySet(d, updates)}, found |-> TRUE,
           doc |-> ApplySet(d, updates)] : d \in MatchId(S, id)}

\* deleteExpense: deleteOne({ id }). Its outcomes: the collection after it
\* and deletedCount.
deleteExpense(S, id) ==
    IF MatchId(S, id) = {}
    THEN {[S |-> S, deletedCount |-> 0]}
    ELSE {[S |-> S \ {d}, deletedCount |-> 1] : d \in MatchId(S, id)}

(* ---------------------------------------------------------------------- *)
(* Requests                                                                *)
(* ---------------------------------------------------------------------- *)

Requests == 1..NumReq

NoRequest ==
    [kind |-> "none", pc |-> "idle", body |-> BadBody, pid |-> 0,
     expense |-> NoExpense, status |-> 0, resp |-> NoResponse,
     details |-> <<>>, via |-> "none", dup |-> FALSE, had |-> {},
     added |-> {}, removed |-> {}]

\* a record an earlier run of the server left in the collection: the
\* expense of Body1 with the key "b", created with id 1 at time 0
Seed == ToDocument(BuildExpense(sanitizeInput(Body1(Str(KeyB))), 1, 0))

\* The server starts on a collection that is empty or holds the record of
\* an earlier run; no request has arrived. Id 1 is never generated again.
Init ==
    /\ store \in {{}, {Seed}}
    /\ req = [r \in Requests |-> NoRequest]
    /\ now = 0
    /\ nextId = 2
    /\ call = NoCall
    /\ get = NoGet
    /\ db = Established
    /\ ops = NoOps

\* requests are numbered in the order of their arrival
CanArrive(r) ==
    /\ req[r].kind = "none"
    /\ \A q \in Requests : q < r => req[q].kind # "none"

\* res.status(code).json(body): the handler of request rq returns
Respond(rq, code, body, errs, how) ==
    [rq EXCEPT !.pc = "done", !.status = code, !.resp = body,
               !.details = errs, !.via = how]

\* the handler of request rq goes on to await the store operation at p
Await(rq, p) == [rq EXCEPT !.pc = p]

\* One step of the handler of r: the collection becomes S and the request
\* rq. The request keeps what its steps did to the collection: the
\* documents they added and the documents they removed, read off the
\* collection itself.
Step(r, S, rq) ==
    /\ UNCHANGED readSide
    /\ store' = S
    /\ req' = [req EXCEPT ![r] =
                 [rq EXCEPT !.added = @ \cup (S \ store),
                            !.removed = @ \cup (store \ S)]]

(* ---------------------------------------------------------------------- *)
(* POST /expenses                                                          *)
(* ---------------------------------------------------------------------- *)

\* the values new Date() can return: the clock never runs backwards
ClockReadings == now..MaxClock

\* IsValid as it would be had the handlers not looked at validation.valid
IsValidUnchecked(errs) == TRUE

\* validation.valid: the error list is empty
IsValid(errs) == errs = <<>>

\* whether the create handler does the pre-check read for this key
HasKey(key) == Truthy(key)

\* what the create handler answers after createExpense returned result
CreatedResponse(expense, result) == toExpenseResponse(expense)

\* the key the catch block re-reads by after a duplicate key error
RecoverKey(body) == body.idempotency_key

\* The handler builds its candidate, with a fresh id and the time t, and
\* goes on to await createExpense.
BuildCandidate(r, rq, t) ==
    /\ Step(r, store,
            Await([rq EXCEPT !.expense =
                      BuildExpense(sanitizeInput(rq.body), nextId, t)],
                  "upsert"))
    /\ nextId' = nextId + 1
    /\ now' = t

\* The request arrives and the handler runs up to its await of
\* createExpense: validation, sanitizeInput, with a key the pre-check read
\* findByIdempotencyKey, which answers an existing record with 200, and the
\* construction of the candidate.
PostArrive(r, body) ==
    /\ CanArrive(r)
    /\ LET errs == validateExpenseInput(body)
           key == sanitizeInput(body).idempotency_key
           rq == [req[r] EXCEPT !.kind = "post", !.body = body,
                                !.had = MatchKey(store, key)]
           existing == findByIdempotencyKey(store, key)
       IN  IF ~IsValid(errs)
           THEN /\ Step(r, store,
                        Respond(rq, 400, NoResponse, errs, "validation"))
                /\ UNCHANGED <<now, nextId>>
           ELSE IF HasKey(key) /\ existing # {}
           THEN /\ \E e \in existing :
                      Step(r, store,
                           Respond(rq, 200, toExpenseResponse(e), <<>>,
                                   "precheck"))
                /\ UNCHANGED <<now, nextId>>
           ELSE \E t \in ClockReadings : BuildCandidate(r, rq, t)

\* createExpense, the query of findOneAndUpdate with upsert: a matching
\* document is left as it is ($setOnInsert) and the handler answers 201
\* with its candidate; without a match the operation goes on to insert
PostUpsertQuery(r) ==
    /\ req[r].pc = "upsert"
    /\ UNCHANGED <<now, nextId>>
    /\ \/ /\ \E found \in MatchKey(store, req[r].expense.idempotency_key) :
                Step(r, store,
                     Respond(req[r], 201,
                             CreatedResponse(req[r].expense, found),
                             <<>>, "upsert"))
       \/ /\ MatchKey(store, req[r].expense.idempotency_key) = {}
          /\ Step(r, store, Await(req[r], "insert"))

\* createExpense, the insert of the upsert. When a concurrent writer has
\* inserted the key since the query, the unique index rejects the insert:
\* the server either runs the operation again as an update of the document
\* it now finds, or reports the duplicate key error (code 11000), which the
\* catch block of the handler takes.
PostUpsertInsert(r) ==
    /\ req[r].pc = "insert"
    /\ UNCHANGED <<now, nextId>>
    /\ LET doc == ToDocument(req[r].expense)
       IN  \/ /\ ~DuplicateKey(store, doc)
              /\ Step(r, store \cup {doc},
                      Respond(req[r], 201,
                              CreatedResponse(req[r].expense, doc),
                              <<>>, "insert"))
           \/ /\ DuplicateKey(store, doc)
              /\ \E found \in MatchKey(store, req[r].expense.idempotency_key) :
                    Step(r, store,
                         Respond(req[r], 201,
                                 CreatedResponse(req[r].expense, found),
                                 <<>>, "upsert"))
           \/ /\ DuplicateKey(store, doc)
              /\ LET rq == [req[r] EXCEPT !.dup = TRUE]
                 IN  IF HasKey(RecoverKey(rq.body))
                     THEN Step(r, store, Await(rq, "recover"))
                     ELSE Step(r, store,
                               Respond(rq, 500, NoResponse, <<>>, "error"))

\* the catch block after a duplicate key error: findByIdempotencyKey
\* returns, and the record is answered with 200, or the request fails
PostRecover(r) ==
    /\ req[r].pc = "recover"
    /\ UNCHANGED <<now, nextId>>
    /\ LET existing == findByIdempotencyKey(store, RecoverKey(req[r].body))
       IN  \/ \E e \in existing :
                 Step(r, store,
                      Respond(req[r], 200, toExpenseResponse(e), <<>>,
                              "recover"))
           \/ /\ existing = {}
              /\ Step(r, store,
                      Respond(req[r], 500, NoResponse, <<>>, "error"))

(* ---------------------------------------------------------------------- *)
(* PUT /expenses/:id                                                       *)
(* ---------------------------------------------------------------------- *)

\* The request arrives and findById returns: 404 without a record, 400 for
\* a body that fails validation, or the handler goes on to updateExpense.
PutArrive(r, id, body) ==
    /\ CanArrive(r)
    /\ UNCHANGED <<now, nextId>>
    /\ LET rq == [req[r] EXCEPT !.kind = "put", !.pid = id, !.body = body,
                                !.had = MatchId(store, id)]
           errs == validateExpenseInput(body)
       IN  IF findById(store, id) = {}
           THEN Step(r, store, Respond(rq, 404, NoResponse, <<>>, "find"))
           ELSE IF ~IsValid(errs)
           THEN Step(r, store,
                     Respond(rq, 400, NoResponse, errs, "validation"))
           ELSE Step(r, store, Await(rq, "update"))

\* updateExpense returns: the updated record, or null and 404
PutUpdate(r) ==
    /\ req[r].pc = "update"
    /\ UNCHANGED <<now, nextId>>
    /\ \E out \in updateExpense(store, req[r].pid,
                                BuildUpdates(sanitizeInput(req[r].body))) :
          IF out.found
          THEN Step(r, out.S,
                    Respond(req[r], 200, toExpenseResponse(out.doc), <<>>,
                            "update"))
          ELSE Step(r, out.S,
                    Respond(req[r], 404, NoResponse, <<>>, "update"))

(* ---------------------------------------------------------------------- *)
(* DELETE /expenses/:id                                                    *)
(* ---------------------------------------------------------------------- *)

\* DeleteStatus as it would be had the handler not looked at the result
DeleteStatusAlways204(deletedCount) == 204

\* the status the delete handler answers for deleteOne's deletedCount
DeleteStatus(deletedCount) == IF deletedCount = 1 THEN 204 ELSE 404

\* the request arrives and awaits deleteExpense
DeleteArrive(r, id) ==
    /\ CanArrive(r)
    /\ UNCHANGED <<now, nextId>>
    /\ Step(r, store,
            Await([req[r] EXCEPT !.kind = "delete", !.pid = id,
                                 !.had = MatchId(store, id)], "delete"))

\* deleteExpense returns
DeleteExec(r) ==
    /\ req[r].pc = "delete"
    /\ UNCHANGED <<now, nextId>>
    /\ \E out \in deleteExpense(store, req[r].pid) :
          Step(r, out.S,
               Respond(req[r], DeleteStatus(out.deletedCount), NoResponse,
                       <<>>, "delete"))

(* ---------------------------------------------------------------------- *)
(* The server                                                              *)
(* ---------------------------------------------------------------------- *)

Next ==
    \/ \E r \in Requests, body \in PostBodies : PostArrive(r, body)
    \/ \E r \in Requests : PostUpsertQuery(r)
    \/ \E r \in Requests : PostUpsertInsert(r)
    \/ \E r \in Requests : PostRecover(r)
    \/ \E r \in Requests, id \in PathIds, body \in PutBodies :
          PutArrive(r, id, body)
    \/ \E r \in Requests : PutUpdate(r)
    \/ \E r \in Requests, id \in PathIds : DeleteArrive(r, id)
    \/ \E r \in Requests : DeleteExec(r)

Spec == Init /\ [][Next]_vars

(* ---------------------------------------------------------------------- *)
(* Vocabulary of the properties                                            *)
(* ---------------------------------------------------------------------- *)

Done(r) == req[r].pc = "done"

Posts == {r \in Requests : req[r].kind = "post"}

Puts == {r \in Requests : req[r].kind = "put"}

Deletes == {r \in Requests : req[r].kind = "delete"}

\* the bodies of the model that pass validation
ValidBodies ==
    {b \in PostBodies \cup PutBodies : validateExpenseInput(b) = <<>>}

\* the body of r passes validation
ValidBody(r) == req[r].body \in ValidBodies

\* the normalized idempotency key of the create request r
NormKey(r) == TrimKey(req[r].body.idempotency_key)

\* r is a create request carrying the non-empty key k (after trimming)
PostWithKey(r, k) ==
    /\ r \in Posts
    /\ ValidBody(r)
    /\ NormKey(r) = Str(k)

\* r was answered with 200 or 201
Succeeded(r) == Done(r) /\ req[r].status \in {200, 201}

\* r inserted a record: its steps added a document and removed none
Inserted(r) == req[r].added # {} /\ req[r].removed = {}

\* the steps of r left the collection as it was
Untouched(r) == req[r].added = {} /\ req[r].removed = {}

\* no request has removed a record so far
NoDeletes == \A r \in Requests : req[r].kind = "delete" => Untouched(r)

StoredIds == {d.id : d \in store}

\* the non-empty keys the requests of the model normalize to
Keys == {KeyA, KeyB}

(* ---------------------------------------------------------------------- *)
(* C1                                                                      *)
(* ---------------------------------------------------------------------- *)

\* C1: while no record has been deleted, the create requests that carry the
\* same non-empty key K insert at most one record between them, the
\* collection never holds two records with key K, and once one of these
\* requests has been answered successfully exactly one record with key K
\* is stored, whatever the bodies and the interleaving of the requests.
C1_OneRecordPerKey ==
    \A k \in Keys :
        NoDeletes =>
            /\ Cardinality({r \in Requests : PostWithKey(r, k) /\ Inserted(r)})
                   <= 1
            /\ Cardinality(MatchKey(store, Str(k))) <= 1
            /\ (\E r \in Requests : PostWithKey(r, k) /\ Succeeded(r))
                   => Cardinality(MatchKey(store, Str(k))) = 1

\* two create requests with the same key and different bodies both built a
\* candidate (neither was answered by the pre-check), both were answered,
\* and one of them inserted
C1_Witness ==
    \E r1, r2 \in Requests :
        /\ r1 # r2
        /\ PostWithKey(r1, KeyA) /\ PostWithKey(r2, KeyA)
        /\ req[r1].body # req[r2].body
        /\ req[r1].expense.id # 0 /\ req[r2].expense.id # 0
        /\ Done(r1) /\ Done(r2)
        /\ Inserted(r1) /\ ~Inserted(r2)
        /\ NoDeletes

(* ---------------------------------------------------------------------- *)
(* C2                                                                      *)
(* ---------------------------------------------------------------------- *)

\* C2: while no record has been deleted, any two create requests with the
\* same non-empty key K that were answered successfully carry the same id
\* and the same created_at in their responses, those of the record stored
\* under K.
C2_SameRecordReturned ==
    \A k \in Keys : \A r1, r2 \in Requests :
        (/\ NoDeletes
         /\ PostWithKey(r1, k) /\ PostWithKey(r2, k)
         /\ Succeeded(r1) /\ Succeeded(r2))
        => /\ req[r1].resp.id = req[r2].resp.id
           /\ req[r1].resp.created_at = req[r2].resp.created_at
           /\ \E d \in MatchKey(store, Str(k)) :
                 /\ req[r1].resp.id = d.id
                 /\ req[r1].resp.created_at = d.created_at

(* ---------------------------------------------------------------------- *)
(* C3                                                                      *)
(* ---------------------------------------------------------------------- *)

\* r is a valid create request that carries no key, or a key that no record
\* of the initial collection and no other request carries
Independent(r) ==
    /\ r \in Posts
    /\ ValidBody(r)
    /\ \/ NormKey(r) = Undefined
       \/ /\ NormKey(r) # Str(KeyB)
          /\ \A q \in Posts \ {r} : ValidBody(q) => NormKey(q) # NormKey(r)

\* C3: while no record has been deleted, every answered create request that
\* carries no idempotency key, or a key no other request and no stored
\* record carries, has inserted its own record: it is answered with 201 and
\* the id of a stored record that it inserted, and the records of two such
\* requests differ, so that n such requests add n records.
C3_IndependentCreatesInsert ==
    NoDeletes =>
        /\ \A r \in Requests :
              (Independent(r) /\ Done(r))
              => /\ req[r].status = 201
                 /\ Inserted(r)
                 /\ \E d \in req[r].added \cap store : d.id = req[r].resp.id
        /\ \A r1, r2 \in Requests :
              (/\ r1 # r2
               /\ Independent(r1) /\ Done(r1)
               /\ Independent(r2) /\ Done(r2))
              => req[r1].added \cap req[r2].added = {}

(* ---------------------------------------------------------------------- *)
(* C4                                                                      *)
(* ---------------------------------------------------------------------- *)

\* no two stored records have the same idempotency key string
UniquePresentKeys ==
    \A d1, d2 \in store :
        (d1 # d2 /\ d1.idempotency_key.t = "string")
        => d1.idempotency_key # d2.idempotency_key

\* the stored records without an idempotency key
Keyless(S) == {d \in S : d.idempotency_key.t # "string"}

\* C4: in every reachable state no two stored records have the same present
\* idempotency key, and records without a key are not held to the
\* constraint: while no record has been deleted, the collection holds a
\* keyless record for every create request without a key that was answered
\* with 201.
C4_SparseUniqueKeys ==
    /\ UniquePresentKeys
    /\ NoDeletes =>
          Cardinality(Keyless(store))
              >= Cardinality({r \in Posts : /\ Done(r)
                                            /\ ValidBody(r)
                                            /\ NormKey(r) = Undefined
                                            /\ req[r].status = 201})

(* ---------------------------------------------------------------------- *)
(* C5                                                                      *)
(* ---------------------------------------------------------------------- *)

\* C5: while no record has been deleted, a create request with a non-empty
\* idempotency key to which the store reported a duplicate key error is
\* answered with 200 and the record stored under its normalized key, never
\* with an error.
C5_DuplicateKeyRecovered ==
    \A k \in Keys : \A r \in Requests :
        (NoDeletes /\ PostWithKey(r, k) /\ req[r].dup /\ Done(r))
        => /\ req[r].status = 200
           /\ \E d \in MatchKey(store, Str(k)) :
                 req[r].resp = toExpenseResponse(d)

(* ---------------------------------------------------------------------- *)
(* C6                                                                      *)
(* ---------------------------------------------------------------------- *)

\* C6: a create request answered successfully was answered with 201 exactly
\* when it inserted a record, and with 200 exactly when it inserted nothing
\* and returned a record stored under its idempotency key.
C6_StatusTellsInsert ==
    \A r \in Posts :
        Succeeded(r)
        => /\ req[r].status = 201 <=> Inserted(r)
           /\ req[r].status = 200 <=>
                 /\ Untouched(r)
                 /\ req[r].via \in {"precheck", "recover"}

(* ---------------------------------------------------------------------- *)
(* C7                                                                      *)
(* ---------------------------------------------------------------------- *)

\* C7: a create request whose normalized idempotency key belonged to a
\* stored record when the request arrived was answered from the pre-check
\* read with 200 and that record, and its steps left the collection as it
\* was.
C7_ReplayReturnsExisting ==
    \A r \in Posts :
        (/\ Done(r)
         /\ ValidBody(r)
         /\ NormKey(r).t = "string"
         /\ req[r].had # {})
        => /\ req[r].status = 200
           /\ req[r].via = "precheck"
           /\ \E d \in req[r].had : req[r].resp = toExpenseResponse(d)
           /\ Untouched(r)

(* ---------------------------------------------------------------------- *)
(* C8                                                                      *)
(* ---------------------------------------------------------------------- *)

\* C8 as stated: every answered create or update request whose body fails
\* validation was answered with 400 and the list of validation messages,
\* and its steps left the collection as it was.
C8_InvalidBodyIs400 ==
    \A r \in Posts \cup Puts :
        (Done(r) /\ ~ValidBody(r))
        => /\ req[r].status = 400
           /\ req[r].details = validateExpenseInput(req[r].body)
           /\ Untouched(r)

\* C8 amended: an answered request whose body fails validation left the
\* collection as it was; it was answered with 400 and the list of
\* validation messages when it is a create request, or an update request
\* whose id was in the collection at the handler's existence check, and
\* with 404 when it is an update request whose id was not.
C8_InvalidBodyRejected ==
    \A r \in Posts \cup Puts :
        (Done(r) /\ ~ValidBody(r))
        => /\ Untouched(r)
           /\ IF r \in Puts /\ req[r].had = {}
              THEN req[r].status = 404
              ELSE /\ req[r].status = 400
                   /\ req[r].details = validateExpenseInput(req[r].body)
                   /\ Len(req[r].details) > 0

\* a create request and an update request of an existing id, both with a
\* body that violates two rules, were answered
C8_Witness ==
    \E r1, r2 \in Requests :
        /\ r1 \in Posts /\ r2 \in Puts
        /\ Done(r1) /\ Done(r2)
        /\ ~ValidBody(r1) /\ ~ValidBody(r2)
        /\ req[r2].had # {}
        /\ Len(req[r1].details) = 2 /\ Len(req[r2].details) = 2
        /\ store # {}

(* ---------------------------------------------------------------------- *)
(* C9                                                                      *)
(* ---------------------------------------------------------------------- *)

\* the answered delete requests of id that were answered with 204
Deleted204(id) ==
    {r \in Deletes : Done(r) /\ req[r].pid = id /\ req[r].status = 204}

\* C9: an answered delete request was answered with 204 exactly when it
\* removed the record with its id, and removed nothing else, and with 404
\* exactly when it left the collection as it was; of the delete requests of
\* one id at most one was answered with 204, and exactly one once they are
\* all answered and the record existed when one of them arrived; a record
\* deleted is not stored again.
C9_DeleteAnswers ==
    /\ \A r \in Deletes :
          Done(r)
          => /\ req[r].status \in {204, 404}
             /\ req[r].status = 204 <=>
                   /\ req[r].added = {}
                   /\ \E d \in req[r].removed :
                         req[r].removed = {d} /\ d.id = req[r].pid
             /\ req[r].status = 404 <=> Untouched(r)
    /\ \A id \in PathIds :
          /\ Cardinality(Deleted204(id)) <= 1
          /\ Deleted204(id) # {} => id \notin StoredIds
          /\ (/\ \E r \in Deletes : req[r].pid = id /\ req[r].had # {}
              /\ \A r \in Deletes : req[r].pid = id => Done(r))
             => Cardinality(Deleted204(id)) = 1

\* two delete requests of the same existing id were in flight together; one
\* was answered with 204 and the other with 404
C9_Witness ==
    \E r1, r2 \in Deletes :
        /\ r1 # r2
        /\ req[r1].pid = req[r2].pid
        /\ req[r1].had # {} /\ req[r2].had # {}
        /\ Done(r1) /\ Done(r2)
        /\ req[r1].status = 204 /\ req[r2].status = 404

(* ---------------------------------------------------------------------- *)
(* C10                                                                     *)
(* ---------------------------------------------------------------------- *)

\* C10: an update request of an id that was not in the collection at the
\* existence check was answered with 404; an answered update request that
\* was not answered with 200 left the collection as it was, and one that
\* was answered with 200 returned the record with its id and either left
\* the collection as it was (the record had these values already) or
\* replaced that record by its update, adding no record without removing
\* the one it replaces; so an update of a record deleted between the
\* existence check and the write is answered with 404, and a deleted id is
\* never in the collection again.
C10_UpdateNeverInserts ==
    /\ \A r \in Puts :
          Done(r)
          => /\ req[r].status \in {200, 400, 404}
             /\ req[r].had = {} => req[r].status = 404
             /\ req[r].status # 200 => Untouched(r)
             /\ req[r].status = 200 =>
                   /\ req[r].resp.id = req[r].pid
                   /\ \/ Untouched(r)
                      \/ \E d \in req[r].removed :
                            /\ req[r].removed = {d}
                            /\ d.id = req[r].pid
                            /\ req[r].added =
                                  {ApplySet(d, BuildUpdates(
                                                  sanitizeInput(req[r].body)))}
    /\ \A r \in Deletes :
          (Done(r) /\ req[r].removed # {}) => req[r].pid \notin StoredIds

\* the record existed at the existence check of a valid update request and
\* was deleted before its write: the update was answered with 404 and the
\* record is not in the collection
C10_Witness ==
    \E r1 \in Puts, r2 \in Deletes :
        /\ Done(r1) /\ Done(r2)
        /\ req[r1].pid = req[r2].pid
        /\ ValidBody(r1)
        /\ req[r1].had # {}
        /\ req[r2].status = 204
        /\ req[r1].status = 404
        /\ req[r1].pid \notin StoredIds

(* ---------------------------------------------------------------------- *)
(* C11                                                                     *)
(* ---------------------------------------------------------------------- *)

\* C11: an update request answered with 200 either left the collection as
\* it was or replaced exactly one record, the one with its id, by a record
\* with the same id, created_at and idempotency_key and with the amount,
\* category, description and date of its normalized body; it added and
\* removed no other record, and its response is that record.
C11_UpdateKeepsIdentity ==
    \A r \in Puts :
        (Done(r) /\ req[r].status = 200 /\ ~Untouched(r))
        => \E d \in req[r].removed, e \in req[r].added :
              /\ req[r].removed = {d}
              /\ req[r].added = {e}
              /\ d.id = req[r].pid
              /\ e.id = d.id
              /\ e.created_at = d.created_at
              /\ e.idempotency_key = d.idempotency_key
              /\ e.amount = ToMinorUnits(sanitizeInput(req[r].body).amount)
              /\ e.category = Trim(req[r].body.category.s)
              /\ e.description = Trim(req[r].body.description.s)
              /\ e.date = Trim(req[r].body.date.s)
              /\ req[r].resp = toExpenseResponse(e)

\* an update changed the record of an earlier run, which carries a key,
\* while the collection held a second record, created by a request
C11_Witness ==
    \E r \in Puts, q \in Posts :
        /\ Done(r) /\ req[r].status = 200 /\ ~Untouched(r)
        /\ Inserted(q)
        /\ req[q].added \subseteq store
        /\ \E e \in store :
              /\ e.id = req[r].pid
              /\ e.idempotency_key = Str(KeyB)
              /\ e.created_at = Seed.created_at
              /\ e.category = Transport
              /\ e # Seed

(* ---------------------------------------------------------------------- *)
(* Validation and conversion of one input                                  *)
(* ---------------------------------------------------------------------- *)

\* the string of n characters c
LongText(n, c) == [i \in 1..n |-> c]

Lunch == <<"L", "u", "n", "c", "h">>

AmountCases ==
    {Undefined, Null, Str(<<"1", "2">>), NaN, Num(-5, 0), Num(0, 0),
     Num(10, 123), Num(MaxAmount, 1), Num(100, 500)}

CategoryCases == {Undefined, Num(1, 0), Str(<<"X">>), Str(Food)}

DescriptionCases ==
    {Undefined, Str(<<" ">>), Str(LongText(MaxDescriptionLen + 1, " ")),
     Str(LongText(MaxDescriptionLen + 1, "x")), Str(Lunch)}

DateCases ==
    {Undefined,
     Str(<<"1", "5", "-", "0", "1", "-", "2", "0", "2", "4">>),
     Str(<<"2", "0", "2", "4", "-", "1", "3", "-", "0", "1">>),
     Str(<<"2", "0", "2", "8", "-", "0", "1", "-", "0", "1">>),
     Str(Date1)}

KeyCases ==
    {Undefined, Null, Str(LongText(MaxKeyLen + 1, "k")), Str(KeyA)}

\* the inputs that are objects: every combination of the cases of the
\* five fields (an array is an object without these fields)
ObjectInputs ==
    {[shape |-> "object", amount |-> a, category |-> c, description |-> d,
      date |-> dt, idempotency_key |-> k] :
        a \in AmountCases, c \in CategoryCases, d \in DescriptionCases,
        dt \in DateCases, k \in KeyCases}

\* the inputs that are no object: null, undefined, a string, a number
OtherInputs ==
    {[Body1(Undefined) EXCEPT !.shape = s] :
        s \in {"null", "undefined", "string", "number"}}

\* the whole parts of the amounts of AmountInputs
AmountWholes == {0, 1, 100, MaxAmount - 1, MaxAmount}

\* inputs with an amount of every number of hundredths, and valid fields
AmountInputs ==
    {[Body1(Undefined) EXCEPT !.amount = Num(n, 10 * h)] :
        n \in AmountWholes, h \in 0..99}

ValidationInputs == ObjectInputs \cup OtherInputs \cup AmountInputs

\* the input before validateExpenseInput is called on it
NewCall(input) ==
    [pc |-> "input", input |-> input, errors |-> <<>>,
     clean |-> input, stored |-> [u |-> 0, c |-> 0], shown |-> Num(0, 0)]

InitValidation ==
    /\ call \in {NewCall(input) : input \in ValidationInputs}
    /\ store = {}
    /\ req = [r \in Requests |-> NoRequest]
    /\ now = 0
    /\ nextId = 2
    /\ get = NoGet
    /\ db = Established
    /\ ops = NoOps

\* the variables the validation and conversion of an input leave alone
exceptCall == <<store, req, now, nextId, get, db, ops>>

\* validateExpenseInput(req.body)
Validate ==
    /\ call.pc = "input"
    /\ call' = [call EXCEPT !.pc = "validated",
                            !.errors = validateExpenseInput(call.input)]
    /\ UNCHANGED exceptCall

\* sanitizeInput(req.body) of an input that is valid; the product of its
\* rounding is computed with a floating point error
Sanitize ==
    /\ call.pc = "validated"
    /\ IsValid(call.errors)
    /\ \E e \in FloatErrors :
          call' = [call EXCEPT
                     !.pc = "sanitized",
                     !.clean = [sanitizeInput(call.input) EXCEPT
                                  !.amount = RoundTo2(call.input.amount, e)]]
    /\ UNCHANGED exceptCall

\* amount: Math.round(input.amount * 100), of the expense the create
\* handler builds; the product is computed with a floating point error
Convert ==
    /\ call.pc = "sanitized"
    /\ \E e \in FloatErrors :
          call' = [call EXCEPT
                     !.pc = "stored",
                     !.stored = MathRound(Times100(call.clean.amount, e))]
    /\ UNCHANGED exceptCall

\* amount: expense.amount / 100, of toExpenseResponse
Render ==
    /\ call.pc = "stored"
    /\ call' = [call EXCEPT !.pc = "shown",
                            !.shown = DividedBy100(call.stored)]
    /\ UNCHANGED exceptCall

NextValidation == Validate \/ Sanitize \/ Convert \/ Render

SpecValidation == InitValidation /\ [][NextValidation]_vars

(* ---------------------------------------------------------------------- *)
(* C12                                                                     *)
(* ---------------------------------------------------------------------- *)

\* the messages of the list errs
Messages(errs) == {errs[i] : i \in 1..Len(errs)}

\* a is a number, and not NaN
IsNumber(a) == a.t = "number" /\ ~IsNaN(a)

\* the rules of the amount that the value a violates, by their messages
AmountViolations(a) ==
    {m \in {"Amount is required", "Amount must be a valid number",
            "Amount must be greater than 0",
            "Amount exceeds maximum allowed value",
            "Amount can have at most 2 decimal places"} :
        \/ m = "Amount is required" /\ a.t \in {"undefined", "null"}
        \/ /\ m = "Amount must be a valid number"
           /\ a.t \notin {"undefined", "null"}
           /\ ~IsNumber(a)
        \/ /\ m = "Amount must be greater than 0"
           /\ IsNumber(a)
           /\ (a.n < 0 \/ (a.n = 0 /\ a.f = 0))
        \/ /\ m = "Amount exceeds maximum allowed value"
           /\ IsNumber(a)
           /\ (a.n > MaxAmount \/ (a.n = MaxAmount /\ a.f > 0))
        \/ /\ m = "Amount can have at most 2 decimal places"
           /\ IsNumber(a)
           /\ a.f % 10 # 0}

\* the rules of the category that the value c violates
CategoryViolations(c) ==
    {m \in {"Category is required", "Category must be a string",
            "Category must be one of"} :
        \/ m = "Category is required" /\ ~Truthy(c)
        \/ m = "Category must be a string" /\ Truthy(c) /\ c.t # "string"
        \/ /\ m = "Category must be one of"
           /\ Truthy(c) /\ c.t = "string"
           /\ c.s \notin VALID_CATEGORIES}

\* the rules of the description that the value d violates
DescriptionViolations(d) ==
    {m \in {"Description is required", "Description must be a string",
            "Description cannot be empty",
            "Description must be 500 characters or less"} :
        \/ m = "Description is required" /\ ~Truthy(d)
        \/ /\ m = "Description must be a string"
           /\ Truthy(d) /\ d.t # "string"
        \/ /\ m = "Description cannot be empty"
           /\ Truthy(d) /\ d.t = "string"
           /\ \A i \in 1..Len(d.s) : d.s[i] \in Whitespace
        \/ /\ m = "Description must be 500 characters or less"
           /\ d.t = "string"
           /\ Len(d.s) > MaxDescriptionLen}

\* the rules of the date that the value d violates
DateViolations(d) ==
    {m \in {"Date is required", "Date must be a string",
            "Date must be in YYYY-MM-DD format", "Date is not a valid date",
            "Date cannot be more than 1 year in the future"} :
        \/ m = "Date is required" /\ ~Truthy(d)
        \/ m = "Date must be a string" /\ Truthy(d) /\ d.t # "string"
        \/ /\ m = "Date must be in YYYY-MM-DD format"
           /\ Truthy(d) /\ d.t = "string"
           /\ ~DateRegex(d.s)
        \/ /\ m = "Date is not a valid date"
           /\ d.t = "string" /\ DateRegex(d.s)
           /\ ~DateIsValid(ParseDate(d.s))
        \/ /\ m = "Date cannot be more than 1 year in the future"
           /\ d.t = "string" /\ DateRegex(d.s)
           /\ DateIsValid(ParseDate(d.s))
           /\ TooFarInFuture(ParseDate(d.s))}

\* the rules of the idempotency key that the value k violates
KeyViolations(k) ==
    {m \in {"Idempotency key must be a string",
            "Idempotency key must be 100 characters or less"} :
        \/ /\ m = "Idempotency key must be a string"
           /\ k.t \notin {"undefined", "string"}
        \/ /\ m = "Idempotency key must be 100 characters or less"
           /\ k.t = "string"
           /\ Len(k.s) > MaxKeyLen}

\* the rules the object input violates
Violations(input) ==
    AmountViolations(input.amount) \cup CategoryViolations(input.category)
        \cup DescriptionViolations(input.description)
        \cup DateViolations(input.date)
        \cup KeyViolations(input.idempotency_key)

\* C12: validateExpenseInput has returned exactly one error for an input
\* that is no object; for an object its list holds one message for every
\* rule of amount, category, description, date and idempotency_key that the
\* input violates (both the non-empty and the length rule of a description
\* that violates both, both the maximum and the decimal-places rule of
\* such an amount), no other message and no message twice, and the input
\* is valid exactly when the list is empty.
C12_EveryViolationReported ==
    call.pc \notin {"none", "input"}
    => /\ call.input.shape # "object" => Len(call.errors) = 1
       /\ call.input.shape = "object" =>
             /\ Messages(call.errors) = Violations(call.input)
             /\ Len(call.errors) = Cardinality(Messages(call.errors))
       /\ IsValid(call.errors) <=> call.errors = <<>>

(* ---------------------------------------------------------------------- *)
(* C13                                                                     *)
(* ---------------------------------------------------------------------- *)

\* the amount a is greater than 0, at most 100,000,000, and has at most 2
\* decimal digits
InRange(a) ==
    /\ IsNumber(a)
    /\ a.n >= 0 /\ (a.n > 0 \/ a.f > 0)
    /\ a.n < MaxAmount \/ (a.n = MaxAmount /\ a.f = 0)
    /\ a.f % 10 = 0

\* C13: for an input whose amount a is greater than 0, at most 100,000,000
\* and has at most 2 decimal digits, and whose other fields are valid,
\* validation returns no error; sanitizeInput returns the amount a; the
\* stored amount is the integer 100 * a; and the amount of the response is
\* a, whatever the floating point errors of the two products.
C13_AmountRoundTrip ==
    (/\ call.pc \notin {"none", "input"}
     /\ call.input \in AmountInputs
     /\ InRange(call.input.amount))
    => /\ call.errors = <<>>
       /\ call.pc \in {"sanitized", "stored", "shown"}
             => call.clean.amount = call.input.amount
       /\ call.pc \in {"stored", "shown"}
             => call.stored = [u |-> call.input.amount.n,
                               c |-> call.input.amount.f \div 10]
       /\ call.pc = "shown" => call.shown = call.input.amount

\* the largest amount, and an amount of one and of 99 hundredths, were
\* validated, converted and rendered
C13_Witness ==
    /\ call.pc = "shown"
    /\ call.input \in AmountInputs
    /\ call.shown \in {Num(MaxAmount, 0), Num(0, 10), Num(MaxAmount - 1, 990)}

(* ---------------------------------------------------------------------- *)
(* GET /expenses                                                           *)
(* ---------------------------------------------------------------------- *)

\* a query parameter given more than once (category=a&category=b, or
\* category[]=a): the query parser makes it an array, here of the strings s
Arr(s) == [t |-> "object", n |-> 0, f |-> 0, s |-> s]

\* the number a sequence of digits denotes
RECURSIVE DigitsValue(_)
DigitsValue(s) ==
    IF s = <<>> THEN 0
    ELSE 10 * DigitsValue(SubSeq(s, 1, Len(s) - 1)) + DigitVal(s[Len(s)])

\* the longest prefix of s that consists of digits
DigitPrefix(s) ==
    SubSeq(s, 1, CHOOSE k \in 0..Len(s) :
                    /\ \A i \in 1..k : s[i] \in Digits
                    /\ k < Len(s) => s[k + 1] \notin Digits)

\* parseInt(v as string): the integer an optional sign and the leading
\* digits of the string denote, NaN without a digit and for undefined
parseInt(v) ==
    LET s == TrimStart(v.s)
        neg == s # <<>> /\ Head(s) = "-"
        ds == DigitPrefix(IF neg THEN Tail(s) ELSE s)
    IN  IF v.t # "string" \/ ds = <<>> THEN NaN
        ELSE Num(IF neg THEN 0 - DigitsValue(ds) ELSE DigitsValue(ds), 0)

\* v || d
OrElse(v, d) == IF Truthy(v) THEN v ELSE d

date_asc == <<"d", "a", "t", "e", "_", "a", "s", "c">>

date_desc == <<"d", "a", "t", "e", "_", "d", "e", "s", "c">>

Pets == <<"P", "e", "t", "s">>

\* the values of the query parameter category: none, two members of the
\* category set, a string outside it, the empty string, and an array of a
\* string outside it
CategoryParams ==
    {Undefined, Str(Food), Str(Transport), Str(Pets), Str(<<>>),
     Arr(<<Pets>>)}

SortParams == {Undefined, Str(date_asc), Str(date_desc)}

PageParams == {Undefined, Str(<<"2">>), Str(<<"-", "1">>)}

LimitParams == {Undefined, Str(<<"1">>), Str(<<"2">>)}

\* the two digits of a number below 100
TwoDigits(k) ==
    <<CHOOSE c \in Digits : DigitVal(c) = k \div 10,
      CHOOSE c \in Digits : DigitVal(c) = k % 10>>

\* the record of the body b, created with the id and key i at the time t
ListRecord(b, i, t) ==
    ToDocument(BuildExpense(
        sanitizeInput([b EXCEPT !.idempotency_key =
                           Str(<<"k">> \o TwoDigits(i))]),
        i, t))

\* The records of the collections that are listed: three Food records of
\* one date, two of them created at the same time, a Transport record of
\* a later date, and an earlier created Food record of that later date.
ListRecords ==
    {ListRecord(Body1(Undefined), 1, 0),
     ListRecord(Body1(Undefined), 2, 0),
     ListRecord(Body1(Undefined), 3, 1),
     ListRecord(Body2(Undefined), 4, 1),
     ListRecord([Body1(Undefined) EXCEPT !.date = Str(Date2)], 5, 0)}

\* the filter of getExpenses: the documents of S it matches. A stored
\* category is a string, and equals no array.
Matching(S, category) ==
    IF ~Truthy(category) THEN S
    ELSE {d \in S : category.t = "string" /\ d.category = category.s}

\* the comparison of two date strings of the form YYYY-MM-DD
DateBefore(a, b) ==
    LET x == ParseDate(a)
        y == ParseDate(b)
    IN  \/ x.y < y.y
        \/ x.y = y.y /\ x.m < y.m
        \/ x.y = y.y /\ x.m = y.m /\ x.d < y.d

\* d1 sorts before d2 under { date: 1, created_at: 1 }
SortsBefore(d1, d2) ==
    \/ DateBefore(d1.date, d2.date)
    \/ d1.date = d2.date /\ d1.created_at < d2.created_at

\* sort({ date: sortOrder, created_at: sortOrder }) of the documents S:
\* the sequences the cursor can return. The order of documents with equal
\* sort keys is not specified.
RECURSIVE SortedBy(_, _)
SortedBy(S, sortOrder) ==
    IF S = {} THEN {<<>>}
    ELSE UNION {{<<m>> \o rest : rest \in SortedBy(S \ {m}, sortOrder)} :
                   m \in {d \in S : \A o \in S :
                               IF sortOrder = 1 THEN ~SortsBefore(o, d)
                               ELSE ~SortsBefore(d, o)}}

\* SkipCount as it would be with page * limit
SkipCountFromPage(page, limit) == page * limit

\* skip((page - 1) * limit)
SkipCount(page, limit) == (page - 1) * limit

\* Math.ceil(total / limit), of total >= 0 and limit > 0
CeilDiv(total, limit) == (total + limit - 1) \div limit

\* the collection of an earlier run that the read requests list
InitList ==
    /\ store \in SUBSET ListRecords
    /\ req = [r \in Requests |-> NoRequest]
    /\ now = 0
    /\ nextId = 2
    /\ call = NoCall
    /\ get = NoGet
    /\ db = Established
    /\ ops = NoOps

\* the variables a read request leaves alone, the collection apart
exceptGet == <<req, now, nextId, call, db, ops>>

\* the page of the sorted sequence seq that query.skip(skip).limit(limit)
\* returns
PageOf(seq, skip, limit) ==
    SubSeq(seq, skip + 1,
           IF skip + limit < Len(seq) THEN skip + limit ELSE Len(seq))

\* the responses of the documents of seq: result.data.map(toExpenseResponse)
Responses(seq) == [i \in 1..Len(seq) |-> toExpenseResponse(seq[i])]

\* the answered request is the ascending listing that get.asc keeps
IsAscListing(g) ==
    /\ g.pc = "done"
    /\ g.status = 200
    /\ g.asc = [seen |-> TRUE, S |-> g.counted, data |-> g.data]

\* Read requests do not affect each other, and are served one at a time;
\* a further request is served after an ascending listing, with which its
\* response is compared. The handler answers a string category outside the
\* category set with 400; otherwise it parses page and limit, chooses the
\* sort order and calls getExpenses, which awaits countDocuments.
GetArrive(category, sort, page, limit) ==
    /\ get.pc = "none" \/ IsAscListing(get)
    /\ UNCHANGED <<store, exceptGet>>
    /\ LET rq == [NoGet EXCEPT !.category = category, !.sort = sort,
                               !.page = page, !.limit = limit,
                               !.asc = get.asc]
       IN  IF /\ Truthy(category)
              /\ category.t = "string"
              /\ category.s \notin VALID_CATEGORIES
           THEN get' = [rq EXCEPT !.pc = "done", !.status = 400]
           ELSE get' = [rq EXCEPT
                          !.pc = "count",
                          !.pageNum = OrElse(parseInt(page), Num(1, 0)).n,
                          !.limitNum = OrElse(parseInt(limit), Num(0, 0)).n,
                          !.sortOrder =
                              IF sort = Str(date_asc) THEN 1 ELSE -1]

\* countDocuments(filter) returns
GetCount ==
    /\ get.pc = "count"
    /\ UNCHANGED <<store, exceptGet>>
    /\ get' = [get EXCEPT
                 !.pc = "find",
                 !.counted = store,
                 !.total = Cardinality(Matching(store, get.category))]

\* a delete request removes a record between the count and the find
ConcurrentDelete(id) ==
    /\ get.pc = "find"
    /\ store = get.counted
    /\ UNCHANGED <<get, exceptGet>>
    /\ \E out \in deleteExpense(store, id) :
          /\ out.deletedCount = 1
          /\ store' = out.S

\* find(filter).sort(...).skip(...).limit(...).toArray() returns and the
\* handler answers 200 with the page; the server rejects a negative skip,
\* and the handler answers 500
GetFind ==
    /\ get.pc = "find"
    /\ UNCHANGED <<store, exceptGet>>
    /\ LET paged == get.limitNum > 0
           skip == SkipCount(get.pageNum, get.limitNum)
       IN  IF paged /\ skip < 0
           THEN get' = [get EXCEPT !.pc = "done", !.status = 500,
                                   !.quiet = (store = get.counted)]
           ELSE \E seq \in SortedBy(Matching(store, get.category),
                                    get.sortOrder) :
                  LET data == Responses(IF paged
                                        THEN PageOf(seq, skip, get.limitNum)
                                        ELSE seq)
                      quiet == store = get.counted
                  IN  get' =
                        [get EXCEPT
                           !.pc = "done",
                           !.status = 200,
                           !.quiet = quiet,
                           !.data = data,
                           !.resPage = IF paged THEN get.pageNum ELSE 1,
                           !.resLimit =
                               IF paged THEN get.limitNum ELSE get.total,
                           !.totalPages =
                               IF paged
                               THEN CeilDiv(get.total, get.limitNum)
                               ELSE 1,
                           !.asc =
                               IF /\ get.sortOrder = 1
                                  /\ ~paged
                                  /\ ~Truthy(get.category)
                                  /\ quiet
                               THEN [seen |-> TRUE, S |-> store,
                                     data |-> data]
                               ELSE @]

NextList ==
    \/ \E category \in CategoryParams, sort \in SortParams,
          page \in PageParams, limit \in LimitParams :
          GetArrive(category, sort, page, limit)
    \/ GetCount
    \/ \E id \in {d.id : d \in ListRecords} : ConcurrentDelete(id)
    \/ GetFind

SpecList == InitList /\ [][NextList]_vars

(* ---------------------------------------------------------------------- *)
(* GET /stats                                                              *)
(* ---------------------------------------------------------------------- *)

\* number of records of the collections that are aggregated
NumStatRecords == 14

\* the first NumChosen of them are in a collection or not, one by one
NumChosen == 6

\* { $limit: 12 }
MonthlyLimit == 12

\* The month of the stat record i, counted from January 2023: the records
\* 1 and 2 are of one month, later than MonthlyLimit other months, and
\* the other records are of a month each.
MonthIndex(i) ==
    IF i <= 2 THEN MonthlyLimit + 1
    ELSE IF i - 2 <= MonthlyLimit THEN i - 2 ELSE i - 1

\* the date YYYY-MM-DD of the stat record i
StatDate(i) ==
    <<"2", "0">> \o TwoDigits(23 + ((MonthIndex(i) - 1) \div 12)) \o <<"-">>
        \o TwoDigits(((MonthIndex(i) - 1) % 12) + 1) \o <<"-">>
        \o TwoDigits(10 + i)

\* the stat record i: of one of three categories, and of one of four
\* amounts with 50 hundredths
StatRecord(i) ==
    ListRecord(
        [Body1(Undefined) EXCEPT
           !.date = Str(StatDate(i)),
           !.category = Str(<<Food, Transport, Bills>>[(i % 3) + 1]),
           !.amount = Num((i % 4) + 1, 500)],
        i, 0)

\* The collections that are aggregated: any of the first NumChosen
\* records, followed by the records up to some record k, so that a
\* collection holds records of up to NumStatRecords - 1 months.
StatStores ==
    {chosen \cup {StatRecord(i) : i \in (NumChosen + 1)..k} :
        chosen \in SUBSET {StatRecord(i) : i \in 1..NumChosen},
        k \in NumChosen..NumStatRecords}

\* the sum of two amounts in minor units
AddAmount(a, b) ==
    [u |-> a.u + b.u + (a.c + b.c) \div 100, c |-> (a.c + b.c) % 100]

\* a is a smaller amount than b
AmountLess(a, b) == a.u < b.u \/ (a.u = b.u /\ a.c < b.c)

\* { $sum: '$amount' } over the documents S
RECURSIVE SumAmounts(_)
SumAmounts(S) ==
    IF S = {} THEN [u |-> 0, c |-> 0]
    ELSE LET d == CHOOSE x \in S : TRUE
         IN  AddAmount(d.amount, SumAmounts(S \ {d}))

\* Month as it would be had the pipeline grouped by the whole date
MonthWholeDate(d) == d.date

\* { $substr: ['$date', 0, 7] }
Month(d) == SubSeq(d.date, 1, 7)

\* the $group stage of getMonthlyStats
MonthGroups(S) ==
    {[month |-> m,
      total |-> SumAmounts({d \in S : Month(d) = m}),
      count |-> Cardinality({d \in S : Month(d) = m})] :
        m \in {Month(d) : d \in S}}

\* the comparison of two strings that begin with YYYY-MM
MonthBefore(a, b) ==
    LET x == ParseDate(a \o <<"-", "0", "0">>)
        y == ParseDate(b \o <<"-", "0", "0">>)
    IN  x.y < y.y \/ (x.y = y.y /\ x.m < y.m)
            \/ (x.y = y.y /\ x.m = y.m /\ Len(a) > 7 /\ DateBefore(a, b))

\* { $sort: { _id: -1 } } of the month groups G, whose ids differ
RECURSIVE SortMonthsDescending(_)
SortMonthsDescending(G) ==
    IF G = {} THEN <<>>
    ELSE LET g == CHOOSE x \in G :
                     \A o \in G : ~MonthBefore(x.month, o.month)
         IN  <<g>> \o SortMonthsDescending(G \ {g})

\* { $limit: n }
Limit(seq, n) == SubSeq(seq, 1, IF Len(seq) < n THEN Len(seq) ELSE n)

\* getMonthlyStats
getMonthlyStats(S) == Limit(SortMonthsDescending(MonthGroups(S)), MonthlyLimit)

\* the $group stage of getCategoryStats
CategoryGroups(S) ==
    {[category |-> c,
      total |-> SumAmounts({d \in S : d.category = c}),
      count |-> Cardinality({d \in S : d.category = c})] :
        c \in {d.category : d \in S}}

\* TotalBefore as it would be with { $sort: { total: 1 } }
TotalBeforeAscending(g1, g2) == AmountLess(g1.total, g2.total)

\* g1 sorts before g2 under { total: -1 }
TotalBefore(g1, g2) == AmountLess(g2.total, g1.total)

\* { $sort: { total: -1 } } of the category groups G: the sequences the
\* cursor can return; the order of groups of equal total is not specified
RECURSIVE SortByTotal(_)
SortByTotal(G) ==
    IF G = {} THEN {<<>>}
    ELSE UNION {{<<g>> \o rest : rest \in SortByTotal(G \ {g})} :
                   g \in {x \in G : \A o \in G : ~TotalBefore(o, x)}}

\* getCategoryStats: the results it can return
getCategoryStats(S) == SortByTotal(CategoryGroups(S))

\* no GET /stats request has arrived
NoStats ==
    [pc |-> "none", monthly |-> <<>>, categories |-> <<>>,
     monthlyDone |-> FALSE, categoriesDone |-> FALSE, status |-> 0,
     resp |-> [monthly |-> <<>>, categories |-> <<>>]]

InitStats ==
    /\ store \in StatStores
    /\ req = [r \in Requests |-> NoRequest]
    /\ now = 0
    /\ nextId = 2
    /\ call = NoCall
    /\ get = NoStats
    /\ db = Established
    /\ ops = NoOps

\* the request arrives, and the handler calls getMonthlyStats and
\* getCategoryStats and awaits both (Promise.all)
StatsArrive ==
    /\ get.pc = "none"
    /\ get' = [get EXCEPT !.pc = "all"]
    /\ UNCHANGED <<store, exceptGet>>

\* the aggregation of getMonthlyStats returns
MonthlyReturn ==
    /\ get.pc = "all"
    /\ ~get.monthlyDone
    /\ get' = [get EXCEPT !.monthlyDone = TRUE,
                          !.monthly = getMonthlyStats(store)]
    /\ UNCHANGED <<store, exceptGet>>

\* the aggregation of getCategoryStats returns
CategoryReturn ==
    /\ get.pc = "all"
    /\ ~get.categoriesDone
    /\ \E result \in getCategoryStats(store) :
          get' = [get EXCEPT !.categoriesDone = TRUE, !.categories = result]
    /\ UNCHANGED <<store, exceptGet>>

\* both have returned: the handler converts the totals and answers
StatsRespond ==
    /\ get.pc = "all"
    /\ get.monthlyDone /\ get.categoriesDone
    /\ get' = [get EXCEPT
                 !.pc = "done",
                 !.status = 200,
                 !.resp =
                     [monthly |->
                          [i \in 1..Len(get.monthly) |->
                              [get.monthly[i] EXCEPT
                                 !.total = DividedBy100(@)]],
                      categories |->
                          [i \in 1..Len(get.categories) |->
                              [get.categories[i] EXCEPT
                                 !.total = DividedBy100(@)]]]]
    /\ UNCHANGED <<store, exceptGet>>

NextStats == StatsArrive \/ MonthlyReturn \/ CategoryReturn \/ StatsRespond

SpecStats == InitStats /\ [][NextStats]_vars

(* ---------------------------------------------------------------------- *)
(* C14                                                                     *)
(* ---------------------------------------------------------------------- *)

\* the read request was answered with 200 from a collection that was not
\* written between its count and its find
Listed == get.pc = "done" /\ get.status = 200 /\ get.quiet

\* the request asked for pages
Paged == get.limitNum > 0

\* the records of the response
Shown == {get.data[i] : i \in 1..Len(get.data)}

\* the sequence s in reverse
Reverse(s) == [i \in 1..Len(s) |-> s[Len(s) + 1 - i]]

\* C14: a listing with a category of the category set and without pages
\* holds the records of that category, all of them and no other; a listing
\* with sort=date_asc is non-decreasing by date, records of one date in
\* non-decreasing order of created_at; and a date_desc listing without
\* filter and pages is the exact reverse of the date_asc listing that was
\* read before it from the same collection.
C14_FilteredSortedReversed ==
    Listed =>
        /\ (/\ ~Paged
             /\ get.category.t = "string"
             /\ get.category.s \in VALID_CATEGORIES)
            => /\ Shown = {toExpenseResponse(d) :
                             d \in {x \in store :
                                       x.category = get.category.s}}
               /\ Len(get.data) = Cardinality(Shown)
        /\ get.sortOrder = 1
            => \A i, j \in 1..Len(get.data) :
                  i < j => ~SortsBefore(get.data[j], get.data[i])
        /\ (/\ get.sortOrder = -1
             /\ ~Paged
             /\ ~Truthy(get.category)
             /\ get.asc.seen
             /\ get.asc.S = store)
            => get.data = Reverse(get.asc.data)

(* ---------------------------------------------------------------------- *)
(* C15                                                                     *)
(* ---------------------------------------------------------------------- *)

\* the responses of the records that match the filter of the request
MatchingShown == {toExpenseResponse(d) : d \in Matching(store, get.category)}

\* x comes before y in the order of the request
ComesBefore(x, y) ==
    IF get.sortOrder = 1 THEN SortsBefore(x, y) ELSE SortsBefore(y, x)

\* x can stand at position pos of the sorted matching sequence: fewer than
\* pos records come before it, and at least pos records do not come after
AtPosition(x, pos) ==
    /\ Cardinality({m \in MatchingShown : ComesBefore(m, x)}) < pos
    /\ Cardinality({m \in MatchingShown : ~ComesBefore(x, m)}) >= pos

\* C15: a listing read from a collection that was not written between the
\* count and the find reports as total the number of matching records;
\* with limit L > 0 and page p >= 1 it holds, without repetition, the
\* records at the positions (p - 1) * L + 1 through min(p * L, total) of
\* the sorted matching sequence, reports page p and limit L, and
\* totalPages is the least k with k * L >= total; without a limit it holds
\* every matching record and reports page 1 and totalPages 1.
C15_PageOfSortedSequence ==
    Listed =>
        LET L == get.limitNum
            first == (get.pageNum - 1) * L + 1
            last == IF get.pageNum * L < get.total
                    THEN get.pageNum * L ELSE get.total
        IN  /\ get.total = Cardinality(MatchingShown)
            /\ Shown \subseteq MatchingShown
            /\ Len(get.data) = Cardinality(Shown)
            /\ Paged =>
                  /\ get.pageNum >= 1
                  /\ Len(get.data) = IF last >= first THEN last - first + 1
                                     ELSE 0
                  /\ \A i \in 1..Len(get.data) :
                        AtPosition(get.data[i], first + i - 1)
                  /\ get.resPage = get.pageNum
                  /\ get.resLimit = L
                  /\ get.totalPages * L >= get.total
                  /\ get.totalPages >= 0
                  /\ get.totalPages > 0 =>
                        (get.totalPages - 1) * L < get.total
            /\ ~Paged =>
                  /\ Shown = MatchingShown
                  /\ get.resPage = 1
                  /\ get.totalPages = 1
                  /\ get.resLimit = get.total

\* page 2 of limit 2 was read of three matching records: it holds the one
\* record of the last page, of two pages
C15_Witness ==
    /\ Listed
    /\ get.limitNum = 2 /\ get.pageNum = 2
    /\ get.total = 3
    /\ Len(get.data) = 1
    /\ get.totalPages = 2
    /\ Cardinality(store) > 3

(* ---------------------------------------------------------------------- *)
(* C16                                                                     *)
(* ---------------------------------------------------------------------- *)

\* the request carries a category that is no member of the category set
UnknownCategory ==
    /\ get.pc # "none"
    /\ get.category.t # "undefined"
    /\ ~(get.category.t = "string" /\ get.category.s \in VALID_CATEGORIES)

\* C16: a read request with a category that is no member of the category
\* set is answered with 400 by the handler: it is never waiting for the
\* store, and never answered with another status or with a listing.
C16_UnknownCategoryIs400 ==
    UnknownCategory
    => /\ get.pc = "done"
       /\ get.status = 400
       /\ get.data = <<>>

(* ---------------------------------------------------------------------- *)
(* C17                                                                     *)
(* ---------------------------------------------------------------------- *)

\* the first 7 characters of the date of a record
MonthPrefix(d) == [i \in 1..7 |-> d.date[i]]

\* the calendar months of the stored records
StoredMonths == {MonthPrefix(d) : d \in store}

\* the records of the month m
OfMonth(m) == {d \in store : MonthPrefix(d) = m}

\* the months of the groups getMonthlyStats returned
ReturnedMonths == {get.monthly[i].month : i \in 1..Len(get.monthly)}

\* the month a is earlier than the month b, both of the form YYYY-MM
EarlierMonth(a, b) ==
    LET ya == DigitsValue(SubSeq(a, 1, 4))
        yb == DigitsValue(SubSeq(b, 1, 4))
    IN  ya < yb
            \/ (ya = yb /\ DigitsValue(SubSeq(a, 6, 7))
                               < DigitsValue(SubSeq(b, 6, 7)))

\* C17: getMonthlyStats has returned groups of distinct calendar months of
\* stored records, later months first, each with the sum of the amounts
\* and the number of the records of its month; it returned a group for
\* every stored month when there are at most 12, and otherwise 12 groups,
\* of the 12 latest months.
C17_MonthlyGroups ==
    (get.pc \in {"all", "done"} /\ get.monthlyDone)
    => /\ \A i \in 1..Len(get.monthly) :
             LET g == get.monthly[i]
             IN  /\ g.month \in StoredMonths
                 /\ g.total = SumAmounts(OfMonth(g.month))
                 /\ g.count = Cardinality(OfMonth(g.month))
                 /\ g.count > 0
       /\ \A i, j \in 1..Len(get.monthly) :
             i < j => EarlierMonth(get.monthly[j].month, get.monthly[i].month)
       /\ IF Cardinality(StoredMonths) <= MonthlyLimit
          THEN ReturnedMonths = StoredMonths
          ELSE /\ Len(get.monthly) = MonthlyLimit
               /\ \A m \in StoredMonths \ ReturnedMonths :
                     \A k \in ReturnedMonths : EarlierMonth(m, k)

\* records of 13 months were aggregated: 12 groups were returned, the
\* first of them the latest month with its two records, and the earliest
\* month was left out
C17_Witness ==
    /\ get.pc = "done"
    /\ Cardinality(StoredMonths) = MonthlyLimit + 1
    /\ Len(get.monthly) = MonthlyLimit
    /\ get.monthly[1].count = 2
    /\ get.monthly[1].month = <<"2", "0", "2", "4", "-", "0", "1">>
    /\ <<"2", "0", "2", "3", "-", "0", "1">> \in StoredMonths \ ReturnedMonths

(* ---------------------------------------------------------------------- *)
(* C18                                                                     *)
(* ---------------------------------------------------------------------- *)

\* the records of the category c
OfCategory(c) == {d \in store : d.category = c}

\* the sum of the counts of the first n groups of the sequence groups
RECURSIVE CountsUpTo(_, _)
CountsUpTo(groups, n) ==
    IF n = 0 THEN 0 ELSE groups[n].count + CountsUpTo(groups, n - 1)

\* C18: getCategoryStats has returned one group for every category of a
\* stored record, each with the sum of the amounts and the number of the
\* records of its category, in the order of non-increasing total; the
\* counts of the groups add up to the number of stored records.
C18_CategoryGroups ==
    (get.pc \in {"all", "done"} /\ get.categoriesDone)
    => /\ {get.categories[i].category : i \in 1..Len(get.categories)}
              = {d.category : d \in store}
       /\ Len(get.categories) = Cardinality({d.category : d \in store})
       /\ \A i \in 1..Len(get.categories) :
             LET g == get.categories[i]
             IN  /\ g.total = SumAmounts(OfCategory(g.category))
                 /\ g.count = Cardinality(OfCategory(g.category))
       /\ \A i, j \in 1..Len(get.categories) :
             i < j => ~AmountLess(get.categories[i].total,
                                  get.categories[j].total)
       /\ CountsUpTo(get.categories, Len(get.categories))
              = Cardinality(store)

\* three categories were aggregated, and the group of Transport, with the
\* greatest total, comes before the groups of Food and of Bills
C18_Witness ==
    /\ get.pc = "done"
    /\ Len(get.categories) = 3
    /\ get.categories[1].category = Transport
    /\ AmountLess(get.categories[2].total, get.categories[1].total)
    /\ AmountLess(get.categories[3].total, get.categories[2].total)
    /\ get.categories[1].count > 1
    /\ Cardinality(store) > 5

(* ---------------------------------------------------------------------- *)
(* connect() and close()                                                   *)
(* ---------------------------------------------------------------------- *)

\* the number of store operations that call connect()
NumOps == 3

\* the number of calls of close()
MaxCloses == 1

\* The module is loaded: client and connecting are null, and
\* expensesCollection is not assigned. attempts holds, for every
\* connection attempt that was started, the position of its async
\* function; client, connecting and collection hold the number of the
\* attempt that made the object, or 0.
Unloaded ==
    [client |-> 0, connecting |-> 0, collection |-> 0,
     attempts |-> <<>>, closes |-> 0, closing |-> FALSE]

\* a store operation that has not been called
IdleOp == [pc |-> "idle", awaits |-> 0, saw |-> "none"]

Ops == 1..NumOps

InitConnect ==
    /\ store = {}
    /\ req = [r \in Requests |-> NoRequest]
    /\ now = 0
    /\ nextId = 2
    /\ call = NoCall
    /\ get = NoGet
    /\ db = Unloaded
    /\ ops = [o \in Ops |-> IdleOp]

exceptDb == <<store, req, now, nextId, call, get>>

\* an attempt that is started but written to neither client nor connecting
StartAttemptUnrecorded(d) ==
    [d EXCEPT !.attempts = Append(d.attempts, "connect")]

\* The async function of a connection attempt runs up to its first await:
\* it assigns a new MongoClient to client and calls client.connect(); the
\* promise of the function is assigned to connecting.
StartAttempt(d) ==
    LET k == Len(d.attempts) + 1
    IN  [d EXCEPT !.attempts = Append(d.attempts, "connect"),
                  !.client = k,
                  !.connecting = k]

\* A store operation calls connect(). With a client, connect() returns and
\* the operation goes on to the collection; otherwise an attempt is
\* started unless connecting is set, and connect() awaits connecting.
OpCall(o) ==
    /\ ops[o].pc = "idle"
    /\ IF db.client # 0
       THEN /\ ops' = [ops EXCEPT ![o].pc = "touch"]
            /\ db' = db
       ELSE LET d == IF db.connecting = 0 THEN StartAttempt(db) ELSE db
            IN  /\ db' = d
                /\ ops' = [ops EXCEPT ![o].pc = "await",
                                      ![o].awaits = d.connecting]
    /\ UNCHANGED exceptDb

\* The promise connect() awaits is settled (or it awaited null): when it
\* is resolved connect() returns, when it is rejected connect() throws
\* and the operation fails without a read of the collection.
OpResume(o) ==
    /\ ops[o].pc = "await"
    /\ LET k == ops[o].awaits
       IN  \/ /\ k = 0 \/ db.attempts[k] = "resolved"
              /\ ops' = [ops EXCEPT ![o].pc = "touch"]
           \/ /\ k # 0 /\ db.attempts[k] = "rejected"
              /\ ops' = [ops EXCEPT ![o].pc = "rejected"]
    /\ UNCHANGED <<db, exceptDb>>

\* The operation calls a method of expensesCollection; saw is the position
\* of the attempt of the client at that moment.
OpTouch(o) ==
    /\ ops[o].pc = "touch"
    /\ ops' = [ops EXCEPT
                ![o].pc = "touched",
                ![o].saw = IF db.client = 0 THEN "none"
                           ELSE db.attempts[db.client]]
    /\ UNCHANGED <<db, exceptDb>>

\* client.connect() of the attempt k returns: db and expensesCollection
\* are assigned from client, which is null after close(), and the first
\* createIndex is called.
ConnectReturns(k) ==
    /\ db.attempts[k] = "connect"
    /\ db' = IF db.client = 0
             THEN [db EXCEPT !.attempts[k] = "rejected"]
             ELSE [db EXCEPT !.attempts[k] = "index1",
                             !.collection = db.client]
    /\ UNCHANGED <<ops, exceptDb>>

\* a createIndex of the attempt k returns: the next one is called, and
\* after the third the promise of the attempt is resolved
IndexReturns(k) ==
    /\ db.attempts[k] \in {"index1", "index2", "index3"}
    /\ db' = [db EXCEPT !.attempts[k] =
                 CASE db.attempts[k] = "index1" -> "index2"
                   [] db.attempts[k] = "index2" -> "index3"
                   [] OTHER -> "resolved"]
    /\ UNCHANGED <<ops, exceptDb>>

\* client.connect() or a createIndex of the attempt k throws: the promise
\* of the attempt is rejected; client and connecting stay as they are
AttemptThrows(k) ==
    /\ db.attempts[k] \in {"connect", "index1", "index2", "index3"}
    /\ db' = [db EXCEPT !.attempts[k] = "rejected"]
    /\ UNCHANGED <<ops, exceptDb>>

\* close() is called: with a client it awaits client.close(), without one
\* it assigns null to client and connecting at once
CloseCall ==
    /\ db.closes < MaxCloses
    /\ ~db.closing
    /\ db' = IF db.client # 0
             THEN [db EXCEPT !.closes = @ + 1, !.closing = TRUE]
             ELSE [db EXCEPT !.closes = @ + 1, !.client = 0,
                             !.connecting = 0]
    /\ UNCHANGED <<ops, exceptDb>>

\* client.close() returns: null is assigned to client and connecting
CloseReturns ==
    /\ db.closing
    /\ db' = [db EXCEPT !.closing = FALSE, !.client = 0, !.connecting = 0]
    /\ UNCHANGED <<ops, exceptDb>>

NextConnect ==
    \/ \E o \in Ops : OpCall(o)
    \/ \E o \in Ops : OpResume(o)
    \/ \E o \in Ops : OpTouch(o)
    \/ \E k \in 1..Len(db.attempts) : ConnectReturns(k)
    \/ \E k \in 1..Len(db.attempts) : IndexReturns(k)
    \/ \E k \in 1..Len(db.attempts) : AttemptThrows(k)
    \/ CloseCall
    \/ CloseReturns

SpecConnect == InitConnect /\ [][NextConnect]_vars

(* ---------------------------------------------------------------------- *)
(* C19                                                                     *)
(* ---------------------------------------------------------------------- *)

\* C19: while close() has not been called, every store operation that has
\* called a method of the collection did so when the connection attempt
\* was complete (client.connect and the three createIndex calls had
\* returned), neither while the attempt was in flight nor after it failed.
C19_OperationsWaitForEstablishment ==
    db.closes = 0
    => \A o \in Ops : ops[o].pc = "touched" => ops[o].saw = "resolved"

(* ---------------------------------------------------------------------- *)
(* C20                                                                     *)
(* ---------------------------------------------------------------------- *)

\* C20: while close() has not been called, at most one connection attempt
\* has been started, however many operations have called connect().
C20_OneAttempt == db.closes = 0 => Len(db.attempts) <= 1

\* every operation has called connect() while the one attempt was in
\* flight, and close() has not been called
C20_Witness ==
    /\ db.closes = 0
    /\ Len(db.attempts) = 1
    /\ db.attempts[1] \in {"connect", "index1", "index2", "index3"}
    /\ \A o \in Ops : ops[o].pc # "idle"
    /\ \E o \in Ops : ops[o].pc = "await"

(* ---------------------------------------------------------------------- *)
(* C21                                                                     *)
(* ---------------------------------------------------------------------- *)

\* the documents a step inserts: those of the collection after the step
\* whose id no document of the collection had before it
InsertedByStep == {d \in store' : d.id \notin {e.id : e \in store}}

\* C21: whenever a record is inserted, its created_at is not earlier than
\* the created_at of any record that is in the collection already, that
\* is, of any record that was inserted before it.
C21_TimestampsFollowInsertion ==
    [][\A d \in InsertedByStep :
          \A e \in store : e.created_at <= d.created_at]_vars

(* ---------------------------------------------------------------------- *)
(* C22                                                                     *)
(* ---------------------------------------------------------------------- *)

\* The delete request q removed the record stored under the key of the
\* create request r, and r is the next create request with this key: r
\* arrived after q was answered (the record was there when q arrived and
\* gone when r arrived), and every other create request with the key was
\* answered before q arrived, at its pre-check or with the insert of the
\* record q removed.
NextPostAfterDelete(q, r) ==
    /\ q \in Deletes /\ Done(q) /\ req[q].status = 204
    /\ r \in Posts /\ ValidBody(r) /\ NormKey(r).t = "string"
    /\ q < r
    /\ \E d \in req[q].had \cap req[q].removed :
          d.idempotency_key = NormKey(r)
    /\ req[r].had = {}
    /\ \A p \in Posts \ {r} :
          (ValidBody(p) /\ NormKey(p) = NormKey(r))
          => /\ p < q
             /\ \/ req[p].via = "precheck"
                \/ req[p].added \cap req[q].removed # {}

\* the ids of the records that the requests that arrived before r found
\* at their arrival, and of the records the other create requests inserted
IdsOfOthers(r) ==
    {d.id : d \in UNION ({req[p].had : p \in 1..(r - 1)}
                           \cup {req[p].added : p \in Posts \ {r}})}

\* C22: the next create request with the key K after the record stored
\* under K was deleted is not answered with the deleted record: once
\* answered it has status 201 and has inserted one record, built from its
\* own body with the key K and an id no other record has had, and its
\* response is this record.
C22_KeyFreedByDelete ==
    \A q, r \in Requests :
        (NextPostAfterDelete(q, r) /\ Done(r))
        => /\ req[r].status = 201
           /\ req[r].added = {ToDocument(req[r].expense)}
           /\ req[r].removed = {}
           /\ req[r].expense =
                 BuildExpense(sanitizeInput(req[r].body), req[r].expense.id,
                              req[r].expense.created_at)
           /\ req[r].expense.idempotency_key = NormKey(r)
           /\ req[r].expense.id \notin IdsOfOthers(r)
           /\ req[r].resp = toExpenseResponse(req[r].expense)

\* the record with the key "b" was deleted and the next create request
\* with the key "b", with a body that differs from the deleted record, was
\* answered with 201 and its own record, which is the one now stored
C22_Witness ==
    \E q, r \in Requests :
        /\ NextPostAfterDelete(q, r) /\ Done(r)
        /\ req[r].status = 201
        /\ req[r].body = Body2(Str(KeyB))
        /\ req[q].removed = {Seed}
        /\ store = {ToDocument(req[r].expense)}
        /\ req[r].resp.category # Seed.category

=============================================================================
